---- MODULE Spec2Model ----
(***************************************************************************)
(* Attendance-System (src/app.py): the /recognize handler -- eye aspect    *)
(* ratio, single-frame liveness gate, nearest-template matching and the    *)
(* per-day attendance insert -- together with /add-student and the system  *)
(* clock it reads.                                                          *)
(*                                                                         *)
(* Numbers.  Pixel coordinates are integers.  Face encodings are integer   *)
(* vectors in tenths, so the literal 0.5 of the code is 5.  Every input     *)
(* set below is chosen so that each Euclidean distance is an integer, and  *)
(* Sqrt is defined only on perfect squares: distances are exact.  An EAR   *)
(* is a float64 modelled as an exact fraction n/d, or inf, or nan, with    *)
(* the IEEE rules numpy applies to a division by zero.                     *)
(***************************************************************************)
EXTENDS Integers, Sequences, FiniteSets

VARIABLES
    students,      \* table student, in insertion (rowid) order
    attendance,    \* table attendance, in insertion order
    now,           \* the system clock, in half days since the server started
    pc,            \* per worker: "idle", "match", "record", "done"
    face_locations,\* per worker: number of face regions found in the frame
    landmarks,     \* per worker: the list face_landmarks returned
    ear,           \* per worker: the averaged EAR
    encodings,     \* per worker: the probe encodings of the frame
    st_map,        \* per worker: the students whose encoding unpickled
    results,       \* per worker: the results list built by the loop
    matched,       \* per worker: st_map[best_idx] of the face in hand
    existing,      \* per worker: outcome of the Attendance lookup
    response,      \* per worker: the JSON body and HTTP status returned
    arg,           \* input of the function under test (function specs)
    ret            \* its result

vars == <<students, attendance, now, pc, face_locations, landmarks, ear,
          encodings, st_map, results, matched, existing, response, arg, ret>>

dbVars == <<students, attendance>>
localVars == <<face_locations, landmarks, ear, encodings, st_map, results, matched,
               existing, response>>
fnVars == <<arg, ret>>

-----------------------------------------------------------------------------
(* Bounds *)

NumWorkers == 2     \* request threads of the threaded development server
MaxFaces == 2       \* faces in one frame
MaxStudents == 1    \* enrolled students
MaxNow == 2         \* the system clock ranges over 0..MaxNow
MaxLid == 8         \* lid gaps of the eye contours tried, in pixels
MaxGallery == 3     \* gallery length in the matcher's function spec

Workers == 1..NumWorkers
Rolls == 1..MaxStudents
None == [kind |-> "none"]

\* date.today() and the time of day datetime.now() shows: two ticks a day
today == now \div 2
clock == now % 2

-----------------------------------------------------------------------------
(* float64 values: exact fractions, inf, nan *)

Num(n, d) == [kind |-> "num", n |-> n, d |-> d]
Inf == [kind |-> "inf"]
NaN == [kind |-> "nan"]

\* x / y for x >= 0, y >= 0 as numpy.float64 divides: x/0 is inf, 0/0 is nan
FDiv(x, y) ==
    IF x.kind = "nan" \/ y.kind = "nan" THEN NaN
    ELSE IF x.kind = "inf" THEN (IF y.kind = "inf" THEN NaN ELSE Inf)
    ELSE IF y.kind = "inf" THEN Num(0, 1)
    ELSE IF y.n = 0 THEN (IF x.n = 0 THEN NaN ELSE Inf)
    ELSE Num(x.n * y.d, x.d * y.n)

FAdd(x, y) ==
    IF x.kind = "nan" \/ y.kind = "nan" THEN NaN
    ELSE IF x.kind = "inf" \/ y.kind = "inf" THEN Inf
    ELSE Num(x.n * y.d + y.n * x.d, x.d * y.d)

\* x > y; every comparison with nan is False
FGt(x, y) ==
    IF x.kind = "nan" \/ y.kind = "nan" THEN FALSE
    ELSE IF x.kind = "inf" THEN y.kind # "inf"
    ELSE IF y.kind = "inf" THEN FALSE
    ELSE x.n * y.d > y.n * x.d

-----------------------------------------------------------------------------
(* Geometry *)

Sqrt(n) == CHOOSE s \in 0..n : s * s = n

\* dist.euclidean(p, q) for 2-D points
euclidean(p, q) ==
    Sqrt((p[1] - q[1]) * (p[1] - q[1]) + (p[2] - q[2]) * (p[2] - q[2]))

\* eye is the 6-point contour; eye[i] of the code is eye[i + 1] here
calculate_ear(eye) ==
    LET A == euclidean(eye[2], eye[6])
        B == euclidean(eye[3], eye[5])
        C == euclidean(eye[1], eye[4])
    IN  FDiv(Num(A + B, 1), Num(2 * C, 1))

\* ear = (left_ear + right_ear) / 2.0
average_ear(left_eye, right_eye) ==
    FDiv(FAdd(calculate_ear(left_eye), calculate_ear(right_eye)), Num(2, 1))

BLINK_THRESHOLD == Num(22, 100)

\* the test of line 259: TRUE when the request is rejected as not live
blink_not_detected_flipped(e) == FGt(BLINK_THRESHOLD, e)

blink_not_detected_ge(e) == ~FGt(BLINK_THRESHOLD, e) /\ e.kind # "nan"

blink_not_detected(e) == FGt(e, BLINK_THRESHOLD)

-----------------------------------------------------------------------------
(* Matching *)

\* numpy.linalg.norm(a - b) for two encodings of equal length
RECURSIVE SumSq(_, _, _)
SumSq(a, b, i) ==
    IF i > Len(a) THEN 0
    ELSE (a[i] - b[i]) * (a[i] - b[i]) + SumSq(a, b, i + 1)

norm_diff(a, b) == Sqrt(SumSq(a, b, 1))

\* face_recognition.face_distance(known, enc)
face_distance(known, enc) == [i \in 1..Len(known) |-> norm_diff(known[i], enc)]

\* numpy.argmin: the first index holding the minimum (distances non-empty)
argmin_last(distances) ==
    CHOOSE i \in 1..Len(distances) :
        /\ \A j \in 1..Len(distances) : distances[i] <= distances[j]
        /\ \A j \in (i + 1)..Len(distances) : distances[j] # distances[i]

argmin(distances) ==
    CHOOSE i \in 1..Len(distances) :
        /\ \A j \in 1..Len(distances) : distances[i] <= distances[j]
        /\ \A j \in 1..(i - 1) : distances[j] # distances[i]

MATCH_TOLERANCE == 5    \* 0.5, in tenths

accepts(best_distance) == best_distance <= MATCH_TOLERANCE

Raised == [kind |-> "ValueError"]
NoMatch == [kind |-> "nomatch"]
Matched(i, d) == [kind |-> "matched", best_idx |-> i, best_distance |-> d]

\* lines 282-286 and 319 on a non-empty distances array
nearest(distances) ==
    LET best_idx == argmin(distances)
        best_distance == distances[best_idx]
    IN  IF accepts(best_distance) THEN Matched(best_idx, best_distance) ELSE NoMatch

match_lenient(known, enc) ==
    LET distances == face_distance(known, enc)
    IN  IF Len(distances) = 0 THEN NoMatch ELSE nearest(distances)

\* lines 281-286 and 319 for one encoding: np.argmin raises ValueError on the
\* empty array face_distance returns for an empty known list
match(known, enc) ==
    LET distances == face_distance(known, enc)
    IN  IF Len(distances) = 0 THEN Raised ELSE nearest(distances)

\* pickle.dumps / pickle.loads of an encoding
pickle_dumps(enc) == [pickled |-> enc]
Unpickles(blob) == "pickled" \in DOMAIN blob
pickle_loads(blob) == blob.pickled

RECURSIVE Usable(_)
\* lines 269-277: the students whose face_encoding unpickles, in table order
Usable(rows) ==
    IF rows = <<>> THEN <<>>
    ELSE IF Unpickles(Head(rows).face_encoding)
         THEN <<Head(rows)>> \o Usable(Tail(rows))
         ELSE Usable(Tail(rows))

Known(map) == [i \in 1..Len(map) |-> pickle_loads(map[i].face_encoding)]

-----------------------------------------------------------------------------
(* Inputs *)

SeqsUpTo(S, n) == UNION {[1..k -> S] : k \in 0..n}

\* a contour with lid gaps a and b and corner distance c (eye[1], eye[4] are
\* the corners p0 and p3 of the code)
Contour(a, b, c) == << <<0, 0>>, <<3, a>>, <<6, b>>, <<c, 0>>, <<6, 0>>, <<3, 0>> >>

\* a rotated contour: lid gaps 5 and 10, corner distance 25, EAR 0.30
TiltedContour == << <<0, 0>>, <<6, 4>>, <<12, 8>>, <<20, 15>>, <<6, 0>>, <<3, 0>> >>

CornerWidths == {0, 25}

EyeContours ==
    {Contour(a, b, c) : a \in 0..MaxLid, b \in 0..MaxLid, c \in CornerWidths}
        \cup {TiltedContour}

ClosedEye == Contour(5, 6, 25)    \* EAR 11/50 = 0.22, the threshold itself
OpenEye == TiltedContour          \* EAR 0.30
PointEye == Contour(0, 0, 0)      \* all distances zero: 0/0

\* the eye pairs the frames of the handler carry
FrameEyes == {<<ClosedEye, ClosedEye>>, <<OpenEye, OpenEye>>, <<PointEye, ClosedEye>>}

\* encodings, in tenths; all pairwise distances are integers
Vectors == {<<0, 0>>, <<8, 0>>, <<4, 0>>, <<4, 3>>, <<4, -3>>}
ProbeVectors == {<<0, 0>>, <<4, 3>>}

\* the encoding of the photo uploaded for a roll
EnrolledVector(roll) == IF roll % 2 = 1 THEN <<0, 0>> ELSE <<8, 0>>

\* a posted frame: what base64/PIL make of the payload, the encodings of the
\* face regions face_locations finds, and the list face_landmarks returns
\* (one entry per face, or nothing)
Frames ==
    {[image |-> i, encs |-> <<>>, landmarks |-> <<>>] : i \in {"none", "invalid"}}
    \cup
    UNION {{[image |-> "ok", encs |-> e, landmarks |-> l] :
               e \in [1..k -> ProbeVectors],
               l \in [1..k -> FrameEyes] \cup {<<>>}} : k \in 0..MaxFaces}

-----------------------------------------------------------------------------
(* Responses (jsonify bodies with their HTTP status) *)

NoImage == [code |-> 400, status |-> "error", message |-> "No image"]
InvalidImage == [code |-> 400, status |-> "error", message |-> "Invalid image"]
NotFound == [code |-> 200, status |-> "ok", found |-> FALSE]
BlinkNotDetected == [code |-> 200, status |-> "error", message |-> "Blink not detected"]
Found(res) == [code |-> 200, status |-> "ok", found |-> TRUE, results |-> res]
\* np.argmin of an empty array raises ValueError; Flask answers 500
ServerError == [code |-> 500, status |-> "exception", message |-> "ValueError"]

AlreadyMarked(s) ==
    [student_id |-> s.id, roll |-> s.roll, marked |-> FALSE, reason |-> "already_marked"]
Marked(s) == [student_id |-> s.id, roll |-> s.roll, marked |-> TRUE]
Unmatched == [matched |-> FALSE]

-----------------------------------------------------------------------------
(* State after construction: db.create_all() on an empty database *)

Init ==
    /\ students = <<>>
    /\ attendance = <<>>
    /\ now = 0
    /\ pc = [r \in Workers |-> "idle"]
    /\ face_locations = [r \in Workers |-> 0]
    /\ landmarks = [r \in Workers |-> <<>>]
    /\ ear = [r \in Workers |-> None]
    /\ encodings = [r \in Workers |-> <<>>]
    /\ st_map = [r \in Workers |-> <<>>]
    /\ results = [r \in Workers |-> <<>>]
    /\ matched = [r \in Workers |-> None]
    /\ existing = [r \in Workers |-> FALSE]
    /\ response = [r \in Workers |-> None]
    /\ arg = None
    /\ ret = None

-----------------------------------------------------------------------------
(* The system clock *)

Tick ==
    /\ now < MaxNow
    /\ now' = now + 1
    /\ UNCHANGED <<dbVars, pc, localVars, fnVars>>

-----------------------------------------------------------------------------
(* POST /add-student with all fields and an image holding a face; the      *)
(* other paths of the handler flash a message and change nothing           *)

add_student(roll, enc) ==
    /\ Len(students) < MaxStudents
    /\ ~\E i \in 1..Len(students) : students[i].roll = roll
    /\ students' = Append(students,
           [id |-> Len(students) + 1, roll |-> roll,
            face_encoding |-> pickle_dumps(enc)])
    /\ UNCHANGED <<attendance, now, pc, localVars, fnVars>>

-----------------------------------------------------------------------------
(* POST /recognize *)

\* Attendance.query.filter_by(roll=roll, date=d).first() is not None
HasAttendance(roll, d) ==
    \E i \in 1..Len(attendance) : attendance[i].roll = roll /\ attendance[i].date = d

Finish(r, resp) ==
    /\ pc' = [pc EXCEPT ![r] = "done"]
    /\ response' = [response EXCEPT ![r] = resp]

\* lines 228-277: decode, detect, liveness, then encode and load the gallery.
\* Everything up to Student.query.all() is local to the request.
first_landmarks_last(lms) == lms[Len(lms)]

\* lines 250-251: the landmark set the liveness check reads
first_landmarks(lms) == lms[1]

recognize(r, frame) ==
    /\ pc[r] = "idle"
    /\ IF frame.image = "none" THEN
           /\ Finish(r, NoImage)
           /\ UNCHANGED <<face_locations, landmarks, ear, encodings, st_map>>
       ELSE IF frame.image = "invalid" THEN
           /\ Finish(r, InvalidImage)
           /\ UNCHANGED <<face_locations, landmarks, ear, encodings, st_map>>
       ELSE IF Len(frame.encs) = 0 THEN
           /\ Finish(r, NotFound)
           /\ UNCHANGED <<face_locations, landmarks, ear, encodings, st_map>>
       ELSE IF Len(frame.landmarks) = 0 THEN
           /\ face_locations' = [face_locations EXCEPT ![r] = Len(frame.encs)]
           /\ Finish(r, NotFound)
           /\ UNCHANGED <<landmarks, ear, encodings, st_map>>
       ELSE
           LET left_eye == first_landmarks(frame.landmarks)[1]
               right_eye == first_landmarks(frame.landmarks)[2]
               e == average_ear(left_eye, right_eye)
           IN  /\ face_locations' = [face_locations EXCEPT ![r] = Len(frame.encs)]
               /\ landmarks' = [landmarks EXCEPT ![r] = frame.landmarks]
               /\ ear' = [ear EXCEPT ![r] = e]
               /\ IF blink_not_detected(e) THEN
                      /\ Finish(r, BlinkNotDetected)
                      /\ UNCHANGED <<encodings, st_map>>
                  ELSE
                      /\ encodings' = [encodings EXCEPT ![r] = frame.encs]
                      /\ st_map' = [st_map EXCEPT ![r] = Usable(students)]
                      /\ pc' = [pc EXCEPT ![r] = "match"]
                      /\ UNCHANGED response
    /\ UNCHANGED <<dbVars, now, results, matched, existing, fnVars>>

\* after results.append: the loop goes on, or line 322 returns
Appended(r, entry) ==
    LET res == Append(results[r], entry)
    IN  /\ results' = [results EXCEPT ![r] = res]
        /\ IF Len(res) = Len(encodings[r])
           THEN Finish(r, Found(res))
           ELSE pc' = [pc EXCEPT ![r] = "match"] /\ UNCHANGED response

\* lines 280-289 and 319-320 for the next encoding
match_face(r) ==
    /\ pc[r] = "match"
    /\ LET enc == encodings[r][Len(results[r]) + 1]
           m == match(Known(st_map[r]), enc)
       IN  IF m = Raised THEN
               /\ Finish(r, ServerError)
               /\ UNCHANGED <<results, matched, existing>>
           ELSE IF m = NoMatch THEN
               /\ Appended(r, Unmatched)
               /\ UNCHANGED <<matched, existing>>
           ELSE
               /\ matched' = [matched EXCEPT ![r] =
                      [student |-> st_map[r][m.best_idx], today |-> today]]
               /\ existing' = [existing EXCEPT ![r] =
                      HasAttendance(st_map[r][m.best_idx].roll, today)]
               /\ pc' = [pc EXCEPT ![r] = "record"]
               /\ UNCHANGED <<results, response>>
    /\ UNCHANGED <<dbVars, now, face_locations, landmarks, ear, encodings, st_map,
                   fnVars>>

\* lines 290-317: the branch on existing, with the insert and its commit
record_always(r) ==
    /\ pc[r] = "record"
    /\ attendance' = Append(attendance,
           [student_id |-> matched[r].student.id, roll |-> matched[r].student.roll,
            date |-> matched[r].today, time |-> clock])
    /\ Appended(r, Marked(matched[r].student))
    /\ UNCHANGED <<students, now, face_locations, landmarks, ear, encodings, st_map,
                   matched, existing, fnVars>>

record_face(r) ==
    /\ pc[r] = "record"
    /\ IF existing[r] THEN
           /\ Appended(r, AlreadyMarked(matched[r].student))
           /\ UNCHANGED attendance
       ELSE
           /\ attendance' = Append(attendance,
                  [student_id |-> matched[r].student.id,
                   roll |-> matched[r].student.roll,
                   date |-> matched[r].today, time |-> clock])
           /\ Appended(r, Marked(matched[r].student))
    /\ UNCHANGED <<students, now, face_locations, landmarks, ear, encodings, st_map,
                   matched, existing, fnVars>>

\* the response leaves; the worker takes the next request
return(r) ==
    /\ pc[r] = "done"
    /\ pc' = [pc EXCEPT ![r] = "idle"]
    /\ face_locations' = [face_locations EXCEPT ![r] = 0]
    /\ landmarks' = [landmarks EXCEPT ![r] = <<>>]
    /\ ear' = [ear EXCEPT ![r] = None]
    /\ encodings' = [encodings EXCEPT ![r] = <<>>]
    /\ st_map' = [st_map EXCEPT ![r] = <<>>]
    /\ results' = [results EXCEPT ![r] = <<>>]
    /\ matched' = [matched EXCEPT ![r] = None]
    /\ existing' = [existing EXCEPT ![r] = FALSE]
    /\ response' = [response EXCEPT ![r] = None]
    /\ UNCHANGED <<dbVars, now, fnVars>>

-----------------------------------------------------------------------------
(* Specifications *)

\* one capture station aimed at one person with closed eyes: every frame
\* passes the liveness gate and every face in it has the same encoding
StationFrames ==
    {f \in Frames :
        /\ f.image = "ok" /\ Len(f.encs) >= 1 /\ Len(f.landmarks) = Len(f.encs)
        /\ \A i \in 1..Len(f.encs) :
               f.encs[i] = <<4, 3>> /\ f.landmarks[i] = <<ClosedEye, ClosedEye>>}

AddStudent == \E roll \in Rolls : add_student(roll, EnrolledVector(roll))
Recognize == \E r \in Workers, frame \in StationFrames : recognize(r, frame)
RecognizeSerial == \E frame \in Frames : recognize(1, frame)
MatchFace == \E r \in Workers : match_face(r)
RecordFace == \E r \in Workers : record_face(r)
Return == \E r \in Workers : return(r)

\* the threaded server: requests interleave at their database accesses
Next == Tick \/ AddStudent \/ Recognize \/ MatchFace \/ RecordFace \/ Return

Spec == Init /\ [][Next]_vars

\* the server run single-threaded: worker 1 takes every request, one at a
\* time, over every frame
NextSerial ==
    Tick \/ AddStudent \/ RecognizeSerial \/ MatchFace \/ RecordFace \/ Return

SpecSerial == Init /\ [][NextSerial]_vars

-----------------------------------------------------------------------------
(* Function specifications: the liveness test and the matcher applied to   *)
(* inputs drawn from wider sets than the frames above carry                *)

Quiet ==
    /\ students = <<>> /\ attendance = <<>> /\ now = 0
    /\ pc = [r \in Workers |-> "idle"]
    /\ face_locations = [r \in Workers |-> 0]
    /\ landmarks = [r \in Workers |-> <<>>]
    /\ ear = [r \in Workers |-> None]
    /\ encodings = [r \in Workers |-> <<>>]
    /\ st_map = [r \in Workers |-> <<>>]
    /\ results = [r \in Workers |-> <<>>]
    /\ matched = [r \in Workers |-> None]
    /\ existing = [r \in Workers |-> FALSE]
    /\ response = [r \in Workers |-> None]

InitEar ==
    /\ Quiet
    /\ arg \in [left_eye : EyeContours, right_eye : EyeContours]
    /\ ret = None

\* lines 253-259 on the two contours
Liveness ==
    /\ ret = None
    /\ LET e == average_ear(arg.left_eye, arg.right_eye)
       IN  ret' = [kind |-> "liveness", ear |-> e, rejected |-> blink_not_detected(e)]
    /\ UNCHANGED <<dbVars, now, pc, localVars, arg>>

SpecEar == InitEar /\ [][Liveness]_vars

InitMatch ==
    /\ Quiet
    /\ arg \in [known : SeqsUpTo(Vectors, MaxGallery), enc : Vectors]
    /\ ret = None

\* lines 281-286 and 319 on a gallery snapshot and a probe
Match ==
    /\ ret = None
    /\ ret' = match(arg.known, arg.enc)
    /\ UNCHANGED <<dbVars, now, pc, localVars, arg>>

SpecMatch == InitMatch /\ [][Match]_vars

-----------------------------------------------------------------------------
(* Properties *)

\* the geometry of a contour, and the comparison of the two-eye average with
\* 0.22 in integers: (L1/(2 C1) + L2/(2 C2)) / 2 > 22/100
Lid(eye) == euclidean(eye[2], eye[6]) + euclidean(eye[3], eye[5])
Corner(eye) == euclidean(eye[1], eye[4])
NonDegenerate(l, r) == Corner(l) > 0 /\ Corner(r) > 0
AvgAbove(l, r) ==
    100 * (Lid(l) * Corner(r) + Lid(r) * Corner(l)) > 88 * Corner(l) * Corner(r)
AvgAtThreshold(l, r) ==
    100 * (Lid(l) * Corner(r) + Lid(r) * Corner(l)) = 88 * Corner(l) * Corner(r)

FirstLeft(r) == landmarks[r][1][1]
FirstRight(r) == landmarks[r][1][2]

\* C1: the store never holds two events for one (identity, date), however the
\* requests of the threaded server interleave
OneEventPerIdentityDate ==
    \A i, j \in 1..Len(attendance) :
        i # j => ~(attendance[i].roll = attendance[j].roll
                   /\ attendance[i].date = attendance[j].date)

\* C2: with one request in flight at a time, the store changes only by a
\* recording step that appends one event, for an (identity, date) that has
\* none, stamped with the current time, and reports Marked; a recording step
\* for an (identity, date) that has an event changes nothing and reports
\* AlreadyMarked; rows already stored keep every field
IdempotentRecording ==
    [][/\ \A i \in 1..Len(attendance) :
              i <= Len(attendance') /\ attendance'[i] = attendance[i]
       /\ attendance' # attendance =>
              \E r \in Workers :
                  /\ pc[r] = "record"
                  /\ ~HasAttendance(matched[r].student.roll, matched[r].today)
                  /\ attendance' = Append(attendance,
                         [student_id |-> matched[r].student.id,
                          roll |-> matched[r].student.roll,
                          date |-> matched[r].today, time |-> clock])
                  /\ results'[r] = Append(results[r], Marked(matched[r].student))
       /\ \A r \in Workers :
              (/\ pc[r] = "record" /\ pc'[r] # "record"
               /\ HasAttendance(matched[r].student.roll, matched[r].today)) =>
                  /\ attendance' = attendance
                  /\ results'[r] = Append(results[r], AlreadyMarked(matched[r].student))
      ]_vars

\* C2 witness: a request answered already_marked for a student whose event
\* of today carries an earlier time than the clock now shows
SecondMatchLeftTimeAlone ==
    \E r \in Workers, i \in 1..Len(attendance) :
        /\ pc[r] = "done" /\ results[r] # <<>> /\ matched[r] # None
        /\ results[r][Len(results[r])] = AlreadyMarked(matched[r].student)
        /\ attendance[i].roll = matched[r].student.roll
        /\ attendance[i].date = today /\ attendance[i].time < clock

\* C3: a frame whose first landmark set averages above the threshold ends the
\* request with the blink rejection, no encoding computed or matched, and no
\* step of a request so rejected changes the store
NotLiveStops ==
    /\ [](\A r \in Workers :
              (/\ Len(landmarks[r]) >= 1
               /\ NonDegenerate(FirstLeft(r), FirstRight(r))
               /\ AvgAbove(FirstLeft(r), FirstRight(r))) =>
                  /\ pc[r] = "done" /\ response[r] = BlinkNotDetected
                  /\ encodings[r] = <<>> /\ results[r] = <<>> /\ matched[r] = None)
    /\ [][\A r \in Workers :
              (response[r] = BlinkNotDetected \/ response'[r] = BlinkNotDetected) =>
                  attendance' = attendance]_vars

\* C3 witness: a two-face frame rejected while a student is enrolled
RejectedWithGallery ==
    \E r \in Workers :
        /\ response[r] = BlinkNotDetected /\ face_locations[r] = 2
        /\ AvgAbove(FirstLeft(r), FirstRight(r))
        /\ Len(students) >= 1

SqDist(i) == SumSq(arg.known[i], arg.enc, 1)
FirstNearest(i) ==
    /\ \A j \in 1..Len(arg.known) : SqDist(i) <= SqDist(j)
    /\ \A j \in 1..(i - 1) : SqDist(j) > SqDist(i)

\* C5: on a non-empty gallery the matcher returns the lowest index among the
\* templates at minimum distance when that distance is at most 0.5, and no
\* match otherwise
NearestWithinTolerance ==
    (ret # None /\ Len(arg.known) >= 1) =>
        \E i \in 1..Len(arg.known) :
            /\ FirstNearest(i)
            /\ IF SqDist(i) <= 5 * 5
               THEN ret.kind = "matched" /\ ret.best_idx = i
               ELSE ret = NoMatch

\* C5 witness: two templates tie at exactly 0.5 and the earlier one is returned
TieAtToleranceTakesFirst ==
    /\ ret # None /\ Len(arg.known) >= 2
    /\ ret.kind = "matched" /\ ret.best_distance = 5
    /\ \E j \in (ret.best_idx + 1)..Len(arg.known) : SqDist(j) = SqDist(ret.best_idx)

\* C6: a request that reaches the matcher with no usable template appends no
\* outcome, ends in the server error (which carries no results list, unlike
\* the answer holding a no-match), and no step changes the store meanwhile
EmptyGalleryFails ==
    /\ [](\A r \in Workers :
              (encodings[r] # <<>> /\ st_map[r] = <<>>) =>
                  /\ results[r] = <<>>
                  /\ pc[r] \in {"match", "done"}
                  /\ pc[r] = "done" =>
                         /\ response[r] = ServerError
                         /\ "results" \notin DOMAIN response[r]
                         /\ response[r].code # Found(<<Unmatched>>).code)
    /\ [][\A r \in Workers :
              (encodings[r] # <<>> /\ st_map[r] = <<>>) => attendance' = attendance]_vars

\* C6 witness: a live frame answered with the server error
EmptyGalleryAnswered ==
    \E r \in Workers :
        pc[r] = "done" /\ encodings[r] # <<>> /\ st_map[r] = <<>>
            /\ response[r] = ServerError

\* C7: a frame with faces but no landmarks is answered differently from a
\* frame with no face
IndeterminateIsDistinct ==
    \A r \in Workers :
        (pc[r] = "done" /\ face_locations[r] >= 1 /\ landmarks[r] = <<>>) =>
            response[r] # NotFound

\* C8: the answer to a frame with k >= 1 faces holds k outcomes
OneOutcomePerFace ==
    \A r \in Workers :
        (pc[r] = "done" /\ face_locations[r] >= 1) =>
            /\ "results" \in DOMAIN response[r]
            /\ Len(response[r].results) = face_locations[r]

\* C9: a first face with a degenerate eye contour gets the request rejected
\* with an error of its own, with no EAR value and no outcome
DegenerateEyeRejected ==
    \A r \in Workers :
        (Len(landmarks[r]) >= 1 /\ ~NonDegenerate(FirstLeft(r), FirstRight(r))) =>
            /\ ear[r] = None
            /\ pc[r] = "done"
            /\ response[r].status = "error" /\ response[r] # BlinkNotDetected
            /\ results[r] = <<>>

\* the i-th outcome agrees with the matcher on the i-th encoding, and an
\* accepted match has an event in the store
OutcomeOf(r, i) ==
    LET m == match(Known(st_map[r]), encodings[r][i])
        entry == results[r][i]
    IN  IF m = NoMatch THEN entry = Unmatched
        ELSE /\ m.kind = "matched"
             /\ "roll" \in DOMAIN entry
             /\ entry.roll = st_map[r][m.best_idx].roll
             /\ \E k \in 1..Len(attendance) : attendance[k].roll = entry.roll

Rejected(r) ==
    /\ pc[r] = "done" /\ response[r] = BlinkNotDetected
    /\ encodings[r] = <<>> /\ results[r] = <<>>

Answered(r) ==
    /\ response[r] = Found(results[r])
    /\ Len(results[r]) = face_locations[r]
    /\ \A i \in 1..Len(results[r]) : OutcomeOf(r, i)

\* C10 as stated: the first landmark set alone decides; at or below the
\* threshold every face is matched and every accepted match recorded, above
\* it none is
FirstFaceDecides ==
    \A r \in Workers :
        (Len(landmarks[r]) >= 1 /\ NonDegenerate(FirstLeft(r), FirstRight(r))) =>
            IF AvgAbove(FirstLeft(r), FirstRight(r))
            THEN Rejected(r)
            ELSE /\ pc[r] # "idle"
                 /\ \A i \in 1..Len(results[r]) : OutcomeOf(r, i)
                 /\ pc[r] = "done" => Answered(r)

\* C10 amended: as above when the gallery snapshot holds a template; with an
\* empty snapshot the request ends in the server error with no outcome
FirstFaceDecidesGivenGallery ==
    \A r \in Workers :
        (Len(landmarks[r]) >= 1 /\ NonDegenerate(FirstLeft(r), FirstRight(r))) =>
            IF AvgAbove(FirstLeft(r), FirstRight(r))
            THEN Rejected(r)
            ELSE /\ pc[r] # "idle"
                 /\ \A i \in 1..Len(results[r]) : OutcomeOf(r, i)
                 /\ pc[r] = "done" =>
                        IF st_map[r] = <<>>
                        THEN response[r] = ServerError /\ results[r] = <<>>
                        ELSE Answered(r)

\* C10 witness: first face closed, second face open, both faces answered and
\* one of them marked
OpenSecondFaceAnswered ==
    \E r \in Workers :
        /\ pc[r] = "done" /\ Len(landmarks[r]) = 2
        /\ NonDegenerate(FirstLeft(r), FirstRight(r))
        /\ ~AvgAbove(FirstLeft(r), FirstRight(r))
        /\ AvgAbove(landmarks[r][2][1], landmarks[r][2][2])
        /\ response[r] = Found(results[r]) /\ Len(results[r]) = 2
        /\ \E i \in 1..2 : "marked" \in DOMAIN results[r][i] /\ results[r][i].marked

====
